---- MODULE Spec2Model ----
(***************************************************************************)
(* Model of .github/scripts/count_loc.py: the LOC aggregator               *)
(* (calculate_loc_stats with its two paginated fetchers and the on-disk    *)
(* cache), the README patcher (update_readme) and the __main__ driver.     *)
(*                                                                         *)
(* Text is modelled as sequences of tokens.  A token is one character      *)
(* ("0".."9", ",", "-", "+", "x", hex letters) or one of the fixed literal *)
(* chunks of the three README patterns (W1, W2, W3, N1, N2, T1, T2).       *)
(***************************************************************************)
EXTENDS Integers, Sequences, FiniteSets, TLC

(***************************************************************************)
(* Bounds                                                                  *)
(***************************************************************************)
MaxSegs == 3        \* segments in an initial README document
MaxPatches == 2     \* update_readme invocations in a document behaviour
MaxCommits == 2     \* commits of the user on a repository's default branch
PageSize == 1       \* items per page ("first: 100" in both queries, scaled down)

(***************************************************************************)
(* str(int), int(str) and the "," format specifier                         *)
(***************************************************************************)
DigitChars == <<"0", "1", "2", "3", "4", "5", "6", "7", "8", "9">>

DigitSet == {DigitChars[i] : i \in 1..10}

DigitVal(ch) == (CHOOSE i \in 1..10 : DigitChars[i] = ch) - 1

RECURSIVE Digits(_)
Digits(n) == IF n < 10 THEN <<DigitChars[n + 1]>>
             ELSE Digits(n \div 10) \o <<DigitChars[(n % 10) + 1]>>

\* f"{n}" for an int
IntToStr(n) == IF n < 0 THEN <<"-">> \o Digits(0 - n) ELSE Digits(n)

Pad3(n) == <<DigitChars[(n \div 100) + 1], DigitChars[((n \div 10) % 10) + 1],
             DigitChars[(n % 10) + 1]>>

RECURSIVE Grouped(_)
Grouped(n) == IF n < 1000 THEN Digits(n)
              ELSE Grouped(n \div 1000) \o <<",">> \o Pad3(n % 1000)

\* f"{n:,}"
FormatThousands(n) == IF n < 0 THEN <<"-">> \o Grouped(0 - n) ELSE Grouped(n)

RECURSIVE DigitsValue(_, _)
DigitsValue(s, acc) == IF s = <<>> THEN acc
                       ELSE DigitsValue(Tail(s), 10 * acc + DigitVal(Head(s)))

ValueError == [ok |-> FALSE, val |-> 0]

\* int(s): an optional sign followed by at least one digit, else ValueError
ParseInt(s) ==
    LET signed == s # <<>> /\ Head(s) \in {"-", "+"}
        body == IF signed THEN Tail(s) ELSE s
    IN IF body = <<>> \/ \E i \in 1..Len(body) : body[i] \notin DigitSet
       THEN ValueError
       ELSE [ok |-> TRUE,
             val |-> IF signed /\ Head(s) = "-" THEN 0 - DigitsValue(body, 0)
                     ELSE DigitsValue(body, 0)]

(***************************************************************************)
(* re.sub over token sequences.  A pattern is a sequence of elements:      *)
(* [lit |-> token] matches that token, [cls |-> S] matches one or more     *)
(* tokens of S (greedy; in every pattern of the program the element after  *)
(* a class is a literal outside the class, so greedy is the only match).   *)
(***************************************************************************)
Lit(t) == [lit |-> t, cls |-> {}]

Plus(S) == [lit |-> "", cls |-> S]

RECURSIVE ClassRun(_, _, _)
\* first position after the maximal run of tokens of S starting at i
ClassRun(S, doc, i) == IF i <= Len(doc) /\ doc[i] \in S THEN ClassRun(S, doc, i + 1)
                       ELSE i

RECURSIVE MatchFrom(_, _, _, _)
\* position after a match of pat[pi..] at doc[di..], or 0 when there is none
MatchFrom(pat, pi, doc, di) ==
    IF pi > Len(pat) THEN di
    ELSE IF pat[pi].cls = {}
         THEN IF di <= Len(doc) /\ doc[di] = pat[pi].lit
              THEN MatchFrom(pat, pi + 1, doc, di + 1)
              ELSE 0
         ELSE LET e == ClassRun(pat[pi].cls, doc, di)
              IN IF e = di THEN 0 ELSE MatchFrom(pat, pi + 1, doc, e)

RECURSIVE SubFrom(_, _, _, _)
SubFrom(pat, repl, doc, i) ==
    IF i > Len(doc) THEN <<>>
    ELSE LET e == MatchFrom(pat, 1, doc, i)
         IN IF e = 0 THEN <<doc[i]>> \o SubFrom(pat, repl, doc, i + 1)
            ELSE repl \o SubFrom(pat, repl, doc, e)

\* re.sub(pattern, replacement, content): every non-overlapping match, left to right
ReSub(pat, repl, doc) == SubFrom(pat, repl, doc, 1)

\* re.search(pattern, content) is not None
Matches(pat, doc) == \E i \in 1..Len(doc) : MatchFrom(pat, 1, doc, i) # 0

Contains(doc, piece) ==
    \E i \in 1..(Len(doc) - Len(piece) + 1) : SubSeq(doc, i, i + Len(piece) - 1) = piece

(***************************************************************************)
(* update_readme                                                           *)
(***************************************************************************)
NumClass == DigitSet \cup {","}

\* r"i've written \*\*[\d,]+\*\* lines of code and deleted \*\*[\d,]+\*\* lines\."
WrittenPattern == <<Lit("W1"), Plus(NumClass), Lit("W2"), Plus(NumClass), Lit("W3")>>

\* r"that's a net of \*\*[\d,]+\*\* lines still running somewhere in the world\."
NetPattern == <<Lit("N1"), Plus(NumClass), Lit("N2")>>

\* a pattern that lost its closing " -->"
TimestampPatternNoSuffix == <<Lit("T1"), Plus(DigitSet)>>

\* r"<!-- last updated: \d+ -->"
TimestampPattern == <<Lit("T1"), Plus(DigitSet), Lit("T2")>>

WrittenText(add_str, del_str) == <<"W1">> \o add_str \o <<"W2">> \o del_str \o <<"W3">>

NetText(net_str) == <<"N1">> \o net_str \o <<"N2">>

TimestampText(ts_str) == <<"T1">> \o ts_str \o <<"T2">>

\* the content written back by update_readme(additions, deletions, net, timestamp)
update_readme(content, additions, deletions, net, timestamp) ==
    LET add_str == FormatThousands(additions)
        del_str == FormatThousands(deletions)
        net_str == FormatThousands(net)
        c1 == ReSub(WrittenPattern, WrittenText(add_str, del_str), content)
        c2 == ReSub(NetPattern, NetText(net_str), c1)
    IN ReSub(TimestampPattern, TimestampText(IntToStr(timestamp)), c2)


(***************************************************************************)
(* The provider (GitHub GraphQL API) and _graphql_request                  *)
(***************************************************************************)
\* nameWithOwner of the user's repositories, in the listing's NAME order
Names == <<"o/a", "o/b">>

NameSet == {Names[i] : i \in 1..Len(Names)}

\* hashlib.sha256(name_owner.encode("utf-8")).hexdigest(): an injective map
\* to hex tokens; "o/c" is a repository that is no longer listed
RepoHash(name_owner) == CASE name_owner = "o/a" -> <<"a", "f">>
                          [] name_owner = "o/b" -> <<"b", "e">>
                          [] OTHER -> <<"c", "d">>

\* additions / deletions of every commit of a repository
CommitAdditions(name_owner) == IF name_owner = "o/a" THEN 3 ELSE 5

CommitDeletions(name_owner) == IF name_owner = "o/a" THEN 1 ELSE 2

Resp(kind, status, types) == [kind |-> kind, status |-> status, types |-> types]

NoResponse == Resp("none", 0, {})

\* what one POST to the GraphQL endpoint can come back with
Responses ==
    {Resp("ok", 200, {})}
    \cup {Resp("graphql_errors", 200, ts) :
            ts \in {{"RATE_LIMITED"}, {"NOT_FOUND"}, {"RATE_LIMITED", "NOT_FOUND"}}}
    \cup {Resp("http_error", st, {}) : st \in {401, 403, 404, 500, 503}}
    \cup {Resp("network_error", 0, {})}

\* 5xx compared with > instead of >=
GraphqlRequestOffByOne(response) ==
    CASE response.kind = "ok" -> "data"
      [] response.kind = "graphql_errors" ->
            IF "RATE_LIMITED" \in response.types THEN "None" ELSE "raise"
      [] response.kind = "http_error" ->
            IF response.status = 403 \/ response.status > 500 THEN "None" ELSE "raise"
      [] OTHER -> "raise"

\* 401 treated like 403
GraphqlRequestLenient401(response) ==
    CASE response.kind = "ok" -> "data"
      [] response.kind = "graphql_errors" ->
            IF "RATE_LIMITED" \in response.types THEN "None" ELSE "raise"
      [] response.kind = "http_error" ->
            IF response.status \in {401, 403} \/ response.status >= 500
            THEN "None" ELSE "raise"
      [] OTHER -> "raise"

\* _graphql_request: "data" (the payload is returned), "None" (recoverable,
\* returns None) or "raise" (the exception propagates)
GraphqlRequest(response) ==
    CASE response.kind = "ok" -> "data"
      [] response.kind = "graphql_errors" ->
            IF "RATE_LIMITED" \in response.types THEN "None" ELSE "raise"
      [] response.kind = "http_error" ->
            IF response.status = 403 \/ response.status >= 500 THEN "None" ELSE "raise"
      [] OTHER -> "raise"

Min(a, b) == IF a < b THEN a ELSE b

\* one page of user.repositories(first: PageSize, after: cursor): the edges,
\* pageInfo.endCursor and pageInfo.hasNextPage (a cursor is an offset, 0 = null)
ReposPage(up, after) ==
    LET end == Min(after + PageSize, Len(Names))
    IN [edges |-> [i \in 1..(end - after) |->
                     [nameWithOwner |-> Names[after + i],
                      totalCount |-> up[Names[after + i]]]],
        endCursor |-> end,
        hasNextPage |-> end < Len(Names)]

\* one page of history(first: PageSize, after: cursor, author): the number of
\* commit nodes, endCursor and hasNextPage
HistoryPage(up, name_owner, after) ==
    LET end == Min(after + PageSize, up[name_owner])
    IN [nodes |-> end - after, endCursor |-> end, hasNextPage |-> end < up[name_owner]]

(***************************************************************************)
(* The cache file                                                          *)
(***************************************************************************)
EmptyCache == [h \in {} |-> <<0, 0, 0>>]

Put(cache, h, v) == [x \in (DOMAIN cache) \cup {h} |-> IF x = h THEN v ELSE cache[x]]

\* the body of "for line in f" for one line; parts == line.strip().split()
ParseLineKeepClean(acc, parts) ==
    IF Len(parts) = 4
    THEN LET c == ParseInt(parts[2])
             a == ParseInt(parts[3])
             d == ParseInt(parts[4])
         IN IF c.ok /\ a.ok /\ d.ok
            THEN [data |-> Put(acc.data, parts[1], <<c.val, a.val, d.val>>), dirty |-> acc.dirty]
            ELSE [data |-> acc.data, dirty |-> acc.dirty]
    ELSE [data |-> acc.data, dirty |-> acc.dirty]

ParseLine(acc, parts) ==
    IF Len(parts) = 4
    THEN LET c == ParseInt(parts[2])
             a == ParseInt(parts[3])
             d == ParseInt(parts[4])
         IN IF c.ok /\ a.ok /\ d.ok
            THEN [data |-> Put(acc.data, parts[1], <<c.val, a.val, d.val>>), dirty |-> acc.dirty]
            ELSE [data |-> acc.data, dirty |-> TRUE]
    ELSE [data |-> acc.data, dirty |-> (acc.dirty \/ parts # <<>>)]

RECURSIVE ParseLines(_, _, _)
\* the first n lines, in order
ParseLines(lines, n, acc) ==
    IF n = 0 THEN acc
    ELSE ParseLine(ParseLines(lines, n - 1, acc), lines[n])

CleanStart == [data |-> EmptyCache, dirty |-> FALSE]

\* The try block that reads CACHE_PATH.  A file that does not exist raises
\* FileNotFoundError, a file that exists and is not readable raises IOError
\* in open(); both leave cached_data empty.
ReadCacheFile(file) ==
    IF ~file.exists \/ ~file.readable THEN [data |-> EmptyCache, dirty |-> TRUE]
    ELSE ParseLines(file.lines, Len(file.lines), CleanStart)

\* f"{h} {data[0]} {data[1]} {data[2]}\n"
CacheLine(entry) == <<entry.hash, IntToStr(entry.data[1]), IntToStr(entry.data[2]),
                      IntToStr(entry.data[3])>>

\* open(CACHE_PATH, "w") and one line per item of final_cache_data.  Writing
\* creates the file or replaces its content and leaves its permissions alone;
\* the write is modelled where it succeeds (its IOError handler only prints).
CacheFileOf(file, final) ==
    [exists |-> TRUE,
     readable |-> (~file.exists \/ file.readable),
     lines |-> [i \in 1..Len(final) |-> CacheLine(final[i])]]

(***************************************************************************)
(* State                                                                   *)
(***************************************************************************)
VARIABLES
    upstream,            \* provider: name_owner -> commits of the user (totalCount)
    cacheFile,           \* cache.txt: [exists, lines]
    readme,              \* README.md content
    redis,               \* value of the key "loc_stats": [set, value]
    pc,                  \* position of the script
    exitStatus,          \* -1 while no run has ended, else the exit status
    lastResponse,        \* the response the step just taken received
    cursor,              \* cursor of the pagination in progress
    edges,               \* _fetch_repos accumulator
    current_repos,       \* sequence of [hash, name, count], in insertion order
    cached_data,         \* hash -> <<count, additions, deletions>>
    cache_needs_update,
    final_cache_data,    \* sequence of [hash, data], in insertion order
    total_add,
    total_del,
    processed_count,
    adds,                \* _fetch_commit_loc accumulators
    dels,
    commits,
    fetched,             \* names _fetch_commit_loc was invoked for in this run
    delivered,           \* name -> commit nodes the provider returned in this run
    readFault,           \* how the cache read of this run went
    transientSeen,       \* a recoverable provider failure happened in this run
    fatalSeen,           \* an unrecoverable provider failure happened in this run
    prev,                \* the previous run, and the files as it left them
    patches,             \* update_readme invocations (document behaviours)
    lastArgs,            \* arguments of the latest update_readme invocation
    startOk              \* all three patterns matched the initial document

persistent == <<cacheFile, readme, redis>>

locals == <<cursor, edges, current_repos, cached_data, cache_needs_update,
            final_cache_data, total_add, total_del, processed_count, adds, dels, commits>>

observers == <<fetched, delivered, readFault, transientSeen, fatalSeen>>

docvars == <<patches, lastArgs, startOk>>

vars == <<upstream, persistent, pc, exitStatus, lastResponse, locals, observers, prev, docvars>>

\* classification of provider failures as the specification words it (an
\* errors payload that names RATE_LIMITED is rate limiting)
IsTransientFailure(response) ==
    \/ response.kind = "http_error" /\ (response.status = 403 \/ response.status >= 500)
    \/ response.kind = "graphql_errors" /\ "RATE_LIMITED" \in response.types

IsFatalFailure(response) ==
    \/ response.kind = "http_error" /\ response.status # 403 /\ response.status < 500
    \/ response.kind = "network_error"
    \/ response.kind = "graphql_errors" /\ "RATE_LIMITED" \notin response.types

(***************************************************************************)
(* Initial states                                                          *)
(***************************************************************************)
Line(h, c, a, d) == <<h, IntToStr(c), IntToStr(a), IntToStr(d)>>

Opt(S) == {<<>>} \cup {<<l>> : l \in S}

\* cache files the first run can find: at most one entry per repository
\* (recorded additions 7 / 9 differ from what the provider reports now) and,
\* between them, a line of a repository that is gone: well-formed, with
\* three fields, or with a non-integer field
InitialCacheLines ==
    {la \o lm \o lb :
        la \in Opt({Line(RepoHash("o/a"), c, 7, 3) : c \in (MaxCommits - 1)..MaxCommits}),
        lm \in Opt({Line(RepoHash("o/c"), 1, 2, 2),
                    <<RepoHash("o/c"), <<"1">>, <<"4">>>>,
                    <<RepoHash("o/c"), <<"1">>, <<"x">>, <<"2">>>>}),
        lb \in Opt({Line(RepoHash("o/b"), 1, 9, 4)})}

NoFile == [exists |-> FALSE, readable |-> FALSE, lines |-> <<>>]

\* no cache file, a readable one, or one the script may not read
InitialCacheFiles ==
    {NoFile}
    \cup {[exists |-> TRUE, readable |-> TRUE, lines |-> ls] : ls \in InitialCacheLines}
    \cup {[exists |-> TRUE, readable |-> FALSE,
           lines |-> <<Line(RepoHash("o/a"), MaxCommits, 7, 3)>>]}

\* provider states: "o/a" has up to MaxCommits commits of the user, "o/b" one
Upstreams == {[n \in NameSet |-> IF n = "o/a" THEN ca ELSE 1] : ca \in 0..MaxCommits}

InitialUpstream == [n \in NameSet |-> IF n = "o/a" THEN MaxCommits ELSE 1]

ReadmeTemplate == <<"x">> \o WrittenText(<<"0">>, <<"0">>) \o <<"x">> \o NetText(<<"0">>)
                  \o <<"x">> \o TimestampText(<<"0">>)

NoRedis == [set |-> FALSE, value |-> [user_name |-> "", additions |-> 0, deletions |-> 0,
                                      net |-> 0, last_updated_unix |-> 0]]

NoPrev == [exitStatus |-> -1, additions |-> 0, deletions |-> 0, cacheFile |-> NoFile,
           readme |-> <<>>, redis |-> NoRedis, upstream |-> [n \in NameSet |-> 0],
           faulty |-> FALSE, counts |-> [n \in {} |-> 0], truncated |-> {}]

NoArgs == [additions |-> 0, deletions |-> 0, net |-> 0, timestamp |-> 0]

LocalsInit ==
    /\ cursor = 0
    /\ edges = <<>>
    /\ current_repos = <<>>
    /\ cached_data = EmptyCache
    /\ cache_needs_update = FALSE
    /\ final_cache_data = <<>>
    /\ total_add = 0
    /\ total_del = 0
    /\ processed_count = 0
    /\ adds = 0
    /\ dels = 0
    /\ commits = 0

ObserversInit ==
    /\ fetched = {}
    /\ delivered = [n \in NameSet |-> 0]
    /\ readFault = "unread"
    /\ transientSeen = FALSE
    /\ fatalSeen = FALSE

Init ==
    /\ upstream \in Upstreams
    /\ cacheFile \in InitialCacheFiles
    /\ readme = ReadmeTemplate
    /\ redis = NoRedis
    /\ pc = "idle"
    /\ exitStatus = -1
    /\ lastResponse = NoResponse
    /\ LocalsInit
    /\ ObserversInit
    /\ prev = NoPrev
    /\ patches = 0
    /\ lastArgs = NoArgs
    /\ startOk = TRUE

(***************************************************************************)
(* calculate_loc_stats                                                     *)
(***************************************************************************)
FORCE_CACHE_REFRESH == FALSE

\* current_repos: one item per edge, keyed by its hash.  The provider lists
\* every repository once, with its nameWithOwner and the history's totalCount,
\* so no edge is skipped, no key is overwritten and no count defaults to 0.
BuildCurrentRepos(repo_edges) ==
    [i \in 1..Len(repo_edges) |->
        [hash |-> RepoHash(repo_edges[i].nameWithOwner),
         name |-> repo_edges[i].nameWithOwner,
         count |-> repo_edges[i].totalCount]]

Keys(repos) == {repos[i].hash : i \in 1..Len(repos)}

\* notices new repositories only
KeySetChangedAddedOnly(repos, cached) == ~(Keys(repos) \subseteq DOMAIN cached)

\* set(current_repos.keys()) != set(cached_data.keys())
KeySetChanged(repos, cached) == Keys(repos) # DOMAIN cached

\* the comparison of the counts inverted
IsCacheHitInverted(cached, repo) ==
    /\ repo.hash \in DOMAIN cached
    /\ ~FORCE_CACHE_REFRESH
    /\ cached[repo.hash][1] # repo.count

\* the comparison of the counts left out
IsCacheHitAnyCount(cached, repo) ==
    /\ repo.hash \in DOMAIN cached
    /\ ~FORCE_CACHE_REFRESH

\* "if cached_info and not FORCE_CACHE_REFRESH" and "cached_count == current_commit_count"
IsCacheHit(cached, repo) ==
    /\ repo.hash \in DOMAIN cached
    /\ ~FORCE_CACHE_REFRESH
    /\ cached[repo.hash][1] = repo.count

\* the listing's count recorded instead of the fetcher's
RecomputedEntryListingCount(repo, a, d, user_commits) ==
    [hash |-> repo.hash, data |-> <<repo.count, a, d>>]

\* final_cache_data[repo_hash] = [user_commits, adds, dels]
RecomputedEntry(repo, a, d, user_commits) ==
    [hash |-> repo.hash, data |-> <<user_commits, a, d>>]

\* additions and deletions stored the wrong way round
ReusedEntrySwapped(cached, repo) ==
    [hash |-> repo.hash,
     data |-> <<cached[repo.hash][1], cached[repo.hash][3], cached[repo.hash][2]>>]

\* final_cache_data[repo_hash] = [cached_count, cached_adds, cached_dels]
ReusedEntry(cached, repo) == [hash |-> repo.hash, data |-> cached[repo.hash]]

CountOf(repos, n) == LET i == CHOOSE j \in 1..Len(repos) : repos[j].name = n IN repos[i].count

Listed(repos) == {repos[i].name : i \in 1..Len(repos)}

Exit(status) ==
    /\ pc' = "exited"
    /\ exitStatus' = status

\* python count_loc.py is started: the first run, or a second run right after
\* it (the model follows two runs in succession); the provider may have
\* changed in between
StartRun(up) ==
    /\ \/ pc = "idle" /\ up = upstream
       \/ pc = "exited" /\ prev.exitStatus = -1
    /\ upstream' = up
    /\ prev' = [exitStatus |-> exitStatus, additions |-> total_add, deletions |-> total_del,
                cacheFile |-> cacheFile, readme |-> readme, redis |-> redis,
                upstream |-> upstream,
                faulty |-> transientSeen,
                counts |-> [n \in Listed(current_repos) |-> CountOf(current_repos, n)],
                truncated |-> {n \in fetched \cap Listed(current_repos) :
                                  delivered[n] < CountOf(current_repos, n)}]
    /\ pc' = "listing"
    /\ lastResponse' = NoResponse
    /\ cursor' = 0
    /\ edges' = <<>>
    /\ current_repos' = <<>>
    /\ cached_data' = EmptyCache
    /\ cache_needs_update' = FALSE
    /\ final_cache_data' = <<>>
    /\ total_add' = 0
    /\ total_del' = 0
    /\ processed_count' = 0
    /\ adds' = 0
    /\ dels' = 0
    /\ commits' = 0
    /\ fetched' = {}
    /\ delivered' = [n \in NameSet |-> 0]
    /\ readFault' = "unread"
    /\ transientSeen' = FALSE
    /\ fatalSeen' = FALSE
    /\ UNCHANGED <<persistent, exitStatus, docvars>>

Observe(response) ==
    /\ lastResponse' = response
    /\ transientSeen' = (transientSeen \/ IsTransientFailure(response))
    /\ fatalSeen' = (fatalSeen \/ IsFatalFailure(response))

\* one call of _fetch_repos: one page request and what is done with its result
FetchReposPage(response) ==
    /\ pc = "listing"
    /\ Observe(response)
    /\ LET out == GraphqlRequest(response)
           page == ReposPage(upstream, cursor)
       IN CASE out = "raise" ->
                 /\ Exit(1)
                 /\ UNCHANGED <<cursor, edges>>
            [] out = "None" ->
                 /\ pc' = "readcache"
                 /\ UNCHANGED <<cursor, edges, exitStatus>>
            [] OTHER ->
                 /\ edges' = edges \o page.edges
                 /\ IF page.hasNextPage /\ page.endCursor # 0
                    THEN cursor' = page.endCursor /\ pc' = "listing"
                    ELSE cursor' = cursor /\ pc' = "readcache"
                 /\ UNCHANGED exitStatus
    /\ UNCHANGED <<upstream, persistent, current_repos, cached_data, cache_needs_update,
                   final_cache_data, total_add, total_del, processed_count, adds, dels,
                   commits, fetched, delivered, readFault, prev, docvars>>

\* current_repos is built, the cache file is read and the key sets are compared
ReadCache ==
    /\ pc = "readcache"
    /\ LET repos == BuildCurrentRepos(edges)
           read == ReadCacheFile(cacheFile)
       IN /\ current_repos' = repos
          /\ cached_data' = IF FORCE_CACHE_REFRESH THEN EmptyCache ELSE read.data
          /\ cache_needs_update' =
                (read.dirty \/ KeySetChanged(repos, read.data) \/ FORCE_CACHE_REFRESH)
    /\ readFault' = IF ~cacheFile.exists THEN "missing"
                    ELSE IF ~cacheFile.readable THEN "unreadable" ELSE "ok"
    /\ pc' = "loop"
    /\ lastResponse' = NoResponse
    /\ UNCHANGED <<upstream, persistent, exitStatus, cursor, edges, final_cache_data,
                   total_add, total_del, processed_count, adds, dels, commits, fetched,
                   delivered, transientSeen, fatalSeen, prev, docvars>>

NextRepo == current_repos[processed_count + 1]

\* the head of one iteration of the loop over current_repos: the cache-hit
\* path, or the call of _fetch_commit_loc(owner, repo, author_id)
ProcessRepo ==
    /\ pc = "loop"
    /\ processed_count < Len(current_repos)
    /\ lastResponse' = NoResponse
    /\ IF IsCacheHit(cached_data, NextRepo)
       THEN /\ total_add' = total_add + cached_data[NextRepo.hash][2]
            /\ total_del' = total_del + cached_data[NextRepo.hash][3]
            /\ final_cache_data' = Append(final_cache_data, ReusedEntry(cached_data, NextRepo))
            /\ processed_count' = processed_count + 1
            /\ UNCHANGED <<pc, cache_needs_update, cursor, adds, dels, commits, fetched>>
       ELSE /\ cache_needs_update' = TRUE
            /\ fetched' = fetched \cup {NextRepo.name}
            /\ cursor' = 0
            /\ adds' = 0
            /\ dels' = 0
            /\ commits' = 0
            /\ pc' = "history"
            /\ UNCHANGED <<total_add, total_del, final_cache_data, processed_count>>
    /\ UNCHANGED <<upstream, persistent, exitStatus, edges, current_repos, cached_data,
                   delivered, readFault, transientSeen, fatalSeen, prev, docvars>>

\* _fetch_commit_loc returns (a, d, c) and the iteration of the loop ends
FinishRepo(a, d, c) ==
    /\ adds' = a
    /\ dels' = d
    /\ commits' = c
    /\ total_add' = total_add + a
    /\ total_del' = total_del + d
    /\ final_cache_data' = Append(final_cache_data, RecomputedEntry(NextRepo, a, d, c))
    /\ processed_count' = processed_count + 1
    /\ pc' = "loop"

\* one call of _fetch_commit_loc: one page request and what is done with its
\* result (the provider's pages are well formed, so the handler of errors
\* while processing a page is never entered)
FetchCommitPage(response) ==
    /\ pc = "history"
    /\ Observe(response)
    /\ LET out == GraphqlRequest(response)
           page == HistoryPage(upstream, NextRepo.name, cursor)
           a == adds + page.nodes * CommitAdditions(NextRepo.name)
           d == dels + page.nodes * CommitDeletions(NextRepo.name)
           c == commits + page.nodes
       IN CASE out = "raise" ->
                 /\ Exit(1)
                 /\ UNCHANGED <<cursor, adds, dels, commits, total_add, total_del,
                                final_cache_data, processed_count, delivered>>
            [] out = "None" ->
                 /\ FinishRepo(adds, dels, commits)
                 /\ UNCHANGED <<cursor, delivered, exitStatus>>
            [] OTHER ->
                 /\ delivered' = [delivered EXCEPT ![NextRepo.name] = @ + page.nodes]
                 /\ IF page.hasNextPage /\ page.endCursor # 0
                    THEN /\ cursor' = page.endCursor
                         /\ adds' = a
                         /\ dels' = d
                         /\ commits' = c
                         /\ UNCHANGED <<pc, total_add, total_del, final_cache_data,
                                        processed_count>>
                    ELSE /\ FinishRepo(a, d, c)
                         /\ UNCHANGED cursor
                 /\ UNCHANGED exitStatus
    /\ UNCHANGED <<upstream, persistent, edges, current_repos, cached_data,
                   cache_needs_update, fetched, readFault, prev, docvars>>

\* the end of calculate_loc_stats: the cache is rewritten when marked, and
\* (total_add, total_del) is returned
WriteCacheAndReturn ==
    /\ pc = "loop"
    /\ processed_count = Len(current_repos)
    /\ cacheFile' = IF cache_needs_update THEN CacheFileOf(cacheFile, final_cache_data)
                    ELSE cacheFile
    /\ pc' = "report"
    /\ lastResponse' = NoResponse
    /\ UNCHANGED <<upstream, readme, redis, exitStatus, locals, observers, prev, docvars>>

(***************************************************************************)
(* __main__ after calculate_loc_stats returned                             *)
(***************************************************************************)
USER_NAME == "rexdotsh"

Times == {1700000000}

\* json.dumps(redis_data); duration_seconds is wall-clock time and left out
RedisData(additions, deletions, net, overall_end_time) ==
    [user_name |-> USER_NAME, additions |-> additions, deletions |-> deletions,
     net |-> net, last_updated_unix |-> overall_end_time]

\* net is computed, the README is patched and the result is published;
\* published = FALSE is a missing client or a failed redis_client.set
Report(overall_end_time, published) ==
    /\ pc = "report"
    /\ LET net == total_add - total_del
       IN /\ readme' = update_readme(readme, total_add, total_del, net, overall_end_time)
          /\ redis' = IF published
                      THEN [set |-> TRUE,
                            value |-> RedisData(total_add, total_del, net, overall_end_time)]
                      ELSE redis
          /\ lastArgs' = [additions |-> total_add, deletions |-> total_del, net |-> net,
                          timestamp |-> overall_end_time]
    /\ Exit(0)
    /\ lastResponse' = NoResponse
    /\ UNCHANGED <<upstream, cacheFile, locals, observers, prev, patches, startOk>>

Next ==
    \/ \E up \in Upstreams : StartRun(up)
    \/ \E response \in Responses : FetchReposPage(response)
    \/ ReadCache
    \/ ProcessRepo
    \/ \E response \in Responses : FetchCommitPage(response)
    \/ WriteCacheAndReturn
    \/ \E t \in Times, published \in BOOLEAN : Report(t, published)

Spec == Init /\ [][Next]_vars

(***************************************************************************)
(* Document behaviours: update_readme applied again and again to a README  *)
(***************************************************************************)
\* pieces an initial README is made of: the three spans as the script writes
\* them, spans it cannot match (a signed number, no digits, no closing
\* " -->"), and other text
Segments ==
    {WrittenText(<<"1", ",", "0", "0", "0">>, <<"0">>),
     NetText(<<"5">>),
     NetText(<<"-", "5">>),
     TimestampText(<<"9">>),
     <<"T1", "9">>,
     <<"x">>}

RECURSIVE Documents(_)
\* concatenations of at most n segments
Documents(n) ==
    IF n = 0 THEN {<<>>}
    ELSE LET shorter == Documents(n - 1)
         IN shorter \cup {d \o g : d \in shorter, g \in Segments}

\* (additions, deletions) of a patch: a positive, a negative and a zero net
PatchValues == {<<1234567, 1000>>, <<1000, 1234567>>, <<7, 7>>}

PatchTimes == {1700000000, 1700003600}

InitDoc ==
    /\ readme \in Documents(MaxSegs)
    /\ startOk = (Matches(WrittenPattern, readme) /\ Matches(NetPattern, readme)
                  /\ Matches(TimestampPattern, readme))
    /\ patches = 0
    /\ lastArgs = NoArgs
    /\ upstream = InitialUpstream
    /\ cacheFile = NoFile
    /\ redis = NoRedis
    /\ pc = "idle"
    /\ exitStatus = -1
    /\ lastResponse = NoResponse
    /\ LocalsInit
    /\ ObserversInit
    /\ prev = NoPrev

\* update_readme(additions, deletions, net, timestamp) reads the README,
\* substitutes and writes it back
Patch(additions, deletions, net, timestamp) ==
    /\ patches < MaxPatches
    /\ readme' = update_readme(readme, additions, deletions, net, timestamp)
    /\ lastArgs' = [additions |-> additions, deletions |-> deletions, net |-> net,
                    timestamp |-> timestamp]
    /\ patches' = patches + 1
    /\ UNCHANGED <<upstream, cacheFile, redis, pc, exitStatus, lastResponse, locals,
                   observers, prev, startOk>>

\* as __main__ calls it: net = additions - deletions
NextDoc ==
    \E totals \in PatchValues, timestamp \in PatchTimes :
        Patch(totals[1], totals[2], totals[1] - totals[2], timestamp)

SpecDoc == InitDoc /\ [][NextDoc]_vars

(***************************************************************************)
(* Properties                                                              *)
(***************************************************************************)
RECURSIVE Sum(_, _)
\* f[1] + ... + f[n]
Sum(f, n) == IF n = 0 THEN 0 ELSE Sum(f, n - 1) + f[n]

\* calculate_loc_stats has returned in the current run
Returned == pc = "report" \/ (pc = "exited" /\ exitStatus = 0)

\* the cache holds an entry for the repository whose recorded commit count is
\* the count of the current listing
FreshEntry(repo) == repo.hash \in DOMAIN cached_data /\ cached_data[repo.hash][1] = repo.count

\* what the provider delivered of a repository's history in this run
Fetched(n) == <<delivered[n], delivered[n] * CommitAdditions(n), delivered[n] * CommitDeletions(n)>>

IsIntToken(tok) == ParseInt(tok).ok

WellFormed(line) == Len(line) = 4 /\ \A j \in 2..4 : IsIntToken(line[j])

HasMalformedLine(file) ==
    \E i \in 1..Len(file.lines) : file.lines[i] # <<>> /\ ~WellFormed(file.lines[i])

\* the mapping identity -> (commit_count, additions, deletions) the file's lines hold
Mapping(file) == ParseLines(file.lines, Len(file.lines), CleanStart).data

\* C1: a listed repository whose cache entry records the commit count of the
\* current listing is never handed to _fetch_commit_loc in the run, its entry
\* is carried over unchanged, and the totals are the sums of the carried-over
\* and recomputed entries, so it contributes exactly its cached additions and
\* deletions.
C1_CacheHitReuses ==
    /\ \A i \in 1..Len(current_repos) :
          FreshEntry(current_repos[i]) =>
             /\ current_repos[i].name \notin fetched
             /\ i <= processed_count =>
                   final_cache_data[i].data = cached_data[current_repos[i].hash]
    /\ total_add = Sum([i \in 1..processed_count |-> final_cache_data[i].data[2]],
                       processed_count)
    /\ total_del = Sum([i \in 1..processed_count |-> final_cache_data[i].data[3]],
                       processed_count)

\* a run that completed with one repository reused from the cache and another recomputed
C1_Witness ==
    /\ pc = "exited" /\ exitStatus = 0
    /\ fetched # {}
    /\ \E i \in 1..Len(current_repos) :
          FreshEntry(current_repos[i]) /\ cached_data[current_repos[i].hash][2] = 7
    /\ total_add >= 7

NoCrash == (pc = "exited" /\ exitStatus # 0) => fatalSeen

C4_Idempotent ==
    (/\ pc = "exited" /\ exitStatus = 0
     /\ prev.exitStatus = 0
     /\ prev.upstream = upstream
     /\ ~prev.faulty
     /\ ~transientSeen)
    => /\ total_add = prev.additions
       /\ total_del = prev.deletions
       /\ total_add - total_del = prev.additions - prev.deletions
       /\ Mapping(cacheFile) = Mapping(prev.cacheFile)

\* a second run that reused everything the first run had to compute or carry over
C4_Witness ==
    /\ pc = "exited" /\ exitStatus = 0
    /\ prev.exitStatus = 0
    /\ prev.upstream = upstream
    /\ ~prev.faulty /\ ~transientSeen /\ readFault = "ok"
    /\ Len(current_repos) = Len(Names)
    /\ fetched = {}
    /\ total_add > 0
    /\ \E h \in DOMAIN cached_data : cached_data[h][2] = 7

\* C5: a page request that fails with a transient provider failure ends its
\* pagination loop at once with exactly what the earlier pages accumulated
\* (the edges, respectively additions, deletions and commit count), and the
\* run goes on: it never ends with a non-zero status because of it.
C5_PartialOnTransient ==
    [][/\ (pc = "listing" /\ IsTransientFailure(lastResponse')) =>
             /\ edges' = edges
             /\ pc' = "readcache"
             /\ exitStatus' = exitStatus
       /\ (pc = "history" /\ IsTransientFailure(lastResponse')) =>
             /\ pc' = "loop"
             /\ exitStatus' = exitStatus
             /\ delivered' = delivered
             /\ processed_count' = processed_count + 1
             /\ final_cache_data' =
                   Append(final_cache_data,
                          [hash |-> NextRepo.hash, data |-> <<commits, adds, dels>>])
             /\ total_add' = total_add + adds
             /\ total_del' = total_del + dels]_vars

\* a completed run whose listing was cut short after its first page and in
\* which a history fetch was cut short after its first page
C5_Witness ==
    /\ pc = "exited" /\ exitStatus = 0
    /\ transientSeen
    /\ 0 < Len(current_repos) /\ Len(current_repos) < Len(Names)
    /\ \E n \in fetched : 0 < delivered[n] /\ delivered[n] < upstream[n]

Reapplied == update_readme(readme, lastArgs.additions, lastArgs.deletions, lastArgs.net,
                           lastArgs.timestamp)

\* C7: update_readme applied to a document it has just patched, with the
\* same values, leaves the document unchanged.
C7_PatchIdempotent == patches > 0 => Reapplied = readme

\* a patch that rewrote all three spans, with thousands separators
C7_Witness ==
    /\ patches > 0
    /\ lastArgs.deletions = 1234567
    /\ lastArgs.net < 0
    /\ Contains(readme, WrittenText(FormatThousands(lastArgs.additions),
                                    FormatThousands(lastArgs.deletions)))
    /\ Contains(readme, NetText(FormatThousands(lastArgs.net)))
    /\ Contains(readme, TimestampText(IntToStr(lastArgs.timestamp)))

\* C8: from a document in which all three patterns match, after any sequence
\* of patches the three spans report the values of the latest patch and all
\* three patterns still match.
C8_SpansFollowLatest ==
    (startOk /\ patches > 0)
    => /\ Contains(readme, WrittenText(FormatThousands(lastArgs.additions),
                                       FormatThousands(lastArgs.deletions)))
       /\ Contains(readme, NetText(FormatThousands(lastArgs.net)))
       /\ Contains(readme, TimestampText(IntToStr(lastArgs.timestamp)))
       /\ Matches(WrittenPattern, readme)
       /\ Matches(NetPattern, readme)
       /\ Matches(TimestampPattern, readme)

C10_TruncatedNeverReused ==
    /\ \A i \in 1..processed_count :
          current_repos[i].name \in fetched =>
             final_cache_data[i].data[1] = delivered[current_repos[i].name]
    /\ prev.exitStatus = 0 =>
          \A i \in 1..Len(current_repos) :
             (/\ current_repos[i].name \in prev.truncated
              /\ current_repos[i].count = prev.counts[current_repos[i].name])
             => /\ ~FreshEntry(current_repos[i])
                /\ i <= processed_count => current_repos[i].name \in fetched

\* a second run that recomputed in full a repository the first run had truncated
C10_Witness ==
    /\ pc = "exited" /\ exitStatus = 0
    /\ prev.exitStatus = 0
    /\ \E i \in 1..Len(current_repos) :
          /\ current_repos[i].name \in prev.truncated
          /\ current_repos[i].count = prev.counts[current_repos[i].name]
          /\ current_repos[i].name \in fetched
          /\ delivered[current_repos[i].name] = current_repos[i].count

====
